---------------------------- MODULE Spec2Model ----------------------------
(***************************************************************************)
(* files-service: key sanitisation, upload validation, object-store        *)
(* transfer and the signed-URL cache of FilesService / S3Service /         *)
(* FileValidator.                                                          *)
(*                                                                         *)
(* Strings are sequences of one-character strings, so that the regular     *)
(* expressions and path.extname of the source are computed character by    *)
(* character.  A payload is a record [head, length]: its first             *)
(* min(length, HeadLen) bytes and its total length in bytes.               *)
(***************************************************************************)
EXTENDS Integers, Sequences, FiniteSets, TLC

VARIABLES
    store,      \* the bucket: object key -> the bytes stored under it
    cache,      \* cache-manager: cache key -> cached URL
    req,        \* the request being served
    resp,       \* its response; NoResp while it is pending
    calls,      \* what the request invoked, in order: sanitizer, backend, cache
    now,        \* the time elapsed since the service started, in milliseconds
    prev,       \* the request served before req, with its response and calls
    uploaded,   \* the keys under which an upload of this run has stored an object
    served,     \* the number of requests served
    proc,       \* the process: where bootstrap() stands, its environment, its exit
    tasks       \* the handlers in flight: task id -> its position and its locals

vars == <<store, cache, req, resp, calls, now, prev, uploaded, served, proc, tasks>>

-----------------------------------------------------------------------------
(* Bounds of the model *)

\* longest raw key enumerated exhaustively over Alphabet
MaxKeyLen == 4

-----------------------------------------------------------------------------
(* Characters *)

Lower == {"a","b","c","d","e","f","g","h","i","j","k","l","m",
          "n","o","p","q","r","s","t","u","v","w","x","y","z"}
Upper == {"A","B","C","D","E","F","G","H","I","J","K","L","M",
          "N","O","P","Q","R","S","T","U","V","W","X","Y","Z"}
Digit == {"0","1","2","3","4","5","6","7","8","9"}

\* the character class [a-zA-Z0-9\-_\/\.]
KeyChars == Lower \cup Upper \cup Digit \cup {"-", "_", "/", "."}

\* String.prototype.toLowerCase on the characters the model uses
LowerChar(c) ==
    CASE c = "E" -> "e"
      [] c = "X" -> "x"
      [] c = "S" -> "s"
      [] c = "H" -> "h"
      [] c = "J" -> "j"
      [] c = "P" -> "p"
      [] c = "D" -> "d"
      [] c = "F" -> "f"
      [] OTHER   -> c

toLowerCase(s) == [i \in 1..Len(s) |-> LowerChar(s[i])]

\* s.startsWith(p)
startsWith(s, p) == Len(s) >= Len(p) /\ SubSeq(s, 1, Len(p)) = p

\* n copies of character c
Repeat(c, n) == [i \in 1..n |-> c]

\* the characters of s at the indices where keep is TRUE, in order
Select(s, keep) ==
    LET marked == [i \in 1..Len(s) |-> <<s[i], keep[i]>>]
        kept   == SelectSeq(marked, LAMBDA m : m[2])
    IN  [i \in 1..Len(kept) |-> kept[i][1]]

\* all sequences over S of length at most n
RECURSIVE SeqsUpTo(_, _)
SeqsUpTo(S, n) ==
    IF n = 0 THEN {<<>>}
    ELSE LET shorter == SeqsUpTo(S, n - 1)
         IN  shorter \cup {Append(s, c) : s \in shorter, c \in S}

-----------------------------------------------------------------------------
(* FileValidator.sanitizeFileKey *)

\* the number of consecutive "." that end at index i of s
DotsEndingAt(s, i) ==
    LET nonDots == {j \in 1..i : s[j] # "."}
        last    == IF nonDots = {} THEN 0
                   ELSE CHOOSE j \in nonDots : \A k \in nonDots : k <= j
    IN  i - last

\* (mutant) key.replace(/\.\./, ''): without the g flag only the first ".."
\* is removed
RemoveDotDot_first(s) ==
    LET at == {i \in 1..(Len(s) - 1) : s[i] = "." /\ s[i + 1] = "."}
        p  == CHOOSE i \in at : \A j \in at : i <= j
    IN  IF at = {} THEN s
        ELSE SubSeq(s, 1, p - 1) \o SubSeq(s, p + 2, Len(s))

\* key.replace(/\.\./g, ''): leftmost non-overlapping matches in one pass.
\* Within a maximal run of dots the pairs are matched from its start, so a
\* dot survives exactly when it is the last of a run of odd length.
RemoveDotDot(s) ==
    Select(s, [i \in 1..Len(s) |->
        \/ s[i] # "."
        \/ /\ DotsEndingAt(s, i) % 2 = 1
           /\ (i = Len(s) \/ s[i + 1] # ".")])

\* sanitized.replace(/^\/+/, ''): the leading run of "/" is dropped
StripLeadingSlashes(s) ==
    LET n == CHOOSE k \in 0..Len(s) :
                 /\ \A j \in 1..k : s[j] = "/"
                 /\ (k = Len(s) \/ s[k + 1] # "/")
    IN  SubSeq(s, n + 1, Len(s))

\* sanitized.replace(/\/+/g, '/'): every run of "/" becomes one "/"
CollapseSlashes(s) ==
    Select(s, [i \in 1..Len(s) |-> ~(s[i] = "/" /\ i > 1 /\ s[i - 1] = "/")])

\* /^[a-zA-Z0-9\-_\/\.]+$/.test(s)
KeyCharsOnly(s) == Len(s) > 0 /\ \A i \in 1..Len(s) : s[i] \in KeyChars

\* (mutant) the leading slashes are stripped before the ".." are removed
Normalize_stripFirst(key) ==
    CollapseSlashes(RemoveDotDot(StripLeadingSlashes(key)))

\* the three replacements of sanitizeFileKey, in its order
Normalize(key) == CollapseSlashes(StripLeadingSlashes(RemoveDotDot(key)))

\* the result of a call: the value returned, or the error thrown
Ok(v)    == [ok |-> TRUE, val |-> v, err |-> "none"]
Throw(e) == [ok |-> FALSE, val |-> <<>>, err |-> e]

\* (mutant) the character test is left out
sanitizeFileKey_unchecked(key) == Ok(Normalize(key))

sanitizeFileKey(key) ==
    LET sanitized == Normalize(key)
    IN  IF ~KeyCharsOnly(sanitized)
        THEN Throw("InvalidKey")
        ELSE Ok(sanitized)

-----------------------------------------------------------------------------
(* path.extname (POSIX) *)

\* the largest index of s holding c, 0 when there is none
LastIndexOf(s, c) ==
    LET at == {i \in 1..Len(s) : s[i] = c}
    IN  IF at = {} THEN 0 ELSE CHOOSE i \in at : \A j \in at : j <= i

\* s without its trailing run of "/"
StripTrailingSlashes(s) ==
    LET n == CHOOSE k \in 0..Len(s) :
                 /\ \A j \in (k + 1)..Len(s) : s[j] = "/"
                 /\ (k = 0 \/ s[k] # "/")
    IN  SubSeq(s, 1, n)

\* the last path segment, trailing "/" ignored
basename(p) ==
    LET q == StripTrailingSlashes(p)
    IN  SubSeq(q, LastIndexOf(q, "/") + 1, Len(q))

\* path.extname: from the last "." of the last segment to its end; empty when
\* the segment has no ".", starts with its only relevant "." or is ".."
extname(p) ==
    LET base == basename(p)
        dot  == LastIndexOf(base, ".")
    IN  IF dot = 0 \/ dot = 1 \/ base = <<".", ".">>
        THEN <<>>
        ELSE SubSeq(base, dot, Len(base))

-----------------------------------------------------------------------------
(* FileValidator: the tables *)

\* A MIME type is the sequence of its "/"-separated segments.
ALLOWED_MIMETYPES == {
    <<"image", "jpeg">>, <<"image", "jpg">>, <<"image", "png">>,
    <<"image", "gif">>, <<"image", "webp">>, <<"image", "svg+xml">>,
    <<"audio", "mpeg">>, <<"audio", "mp3">>, <<"audio", "wav">>,
    <<"audio", "ogg">>, <<"audio", "webm">>,
    <<"application", "pdf">>,
    <<"application", "vnd.ms-excel">>,
    <<"application", "vnd.openxmlformats-officedocument.spreadsheetml.sheet">>,
    <<"application", "msword">>,
    <<"application", "vnd.openxmlformats-officedocument.wordprocessingml.document">>,
    <<"text", "plain">>, <<"text", "csv">>,
    <<"application", "zip">>, <<"application", "x-rar-compressed">> }

BLOCKED_EXTENSIONS == {
    <<".", "e", "x", "e">>, <<".", "b", "a", "t">>, <<".", "s", "h">>,
    <<".", "c", "m", "d">>, <<".", "c", "o", "m">>, <<".", "p", "i", "f">>,
    <<".", "s", "c", "r">>, <<".", "v", "b", "s">>, <<".", "j", "s">>,
    <<".", "j", "a", "r">>, <<".", "a", "p", "p">>, <<".", "m", "s", "i">>,
    <<".", "d", "l", "l">>, <<".", "s", "o">>,
    <<".", "d", "y", "l", "i", "b">> }

\* magic numbers: ff d8 ff / 89 50 4e 47 0d 0a 1a 0a / 47 49 46 38 /
\* 25 50 44 46 / 50 4b 03 04
SignedTypes == { <<"image", "jpeg">>, <<"image", "png">>, <<"image", "gif">>,
                 <<"application", "pdf">>, <<"application", "zip">> }

FILE_SIGNATURES == [m \in SignedTypes |->
    CASE m = <<"image", "jpeg">>      -> <<255, 216, 255>>
      [] m = <<"image", "png">>       -> <<137, 80, 78, 71, 13, 10, 26, 10>>
      [] m = <<"image", "gif">>       -> <<71, 73, 70, 56>>
      [] m = <<"application", "pdf">> -> <<37, 80, 68, 70>>
      [] m = <<"application", "zip">> -> <<80, 75, 3, 4>>]

\* validateFileSize's default maxSize, 50 MiB
MAX_FILE_SIZE == 52428800

\* the window of the payload handed to the signature check, 1 MiB
MAX_PREVIEW == 1048576

\* limits.fileSize of the multipart plugin
FILE_SIZE_LIMIT == 52428800

-----------------------------------------------------------------------------
(* Buffers *)

\* the number of leading bytes a payload record carries: the longest signature
HeadLen == CHOOSE n \in 1..16 :
               /\ \A m \in SignedTypes : Len(FILE_SIGNATURES[m]) <= n
               /\ \E m \in SignedTypes : Len(FILE_SIGNATURES[m]) = n

Min(a, b) == IF a <= b THEN a ELSE b

\* buffer.slice(0, n)
Slice(buffer, n) ==
    LET len == Min(buffer.length, n)
    IN  [head |-> SubSeq(buffer.head, 1, Min(Len(buffer.head), len)), length |-> len]

\* (mutant) a byte past the end of the buffer is taken to match
ByteIs_lenient(buffer, index, byte) ==
    index >= Len(buffer.head) \/ buffer.head[index + 1] = byte

\* buffer[index] === byte, index counted from 0; past the end it is undefined
ByteIs(buffer, index, byte) ==
    index < Len(buffer.head) /\ buffer.head[index + 1] = byte

-----------------------------------------------------------------------------
(* FileValidator: the gates.  Each returns Ok or the error it throws. *)

validateMimeType(mimetype) ==
    IF mimetype \notin ALLOWED_MIMETYPES
    THEN Throw("UnsupportedType")
    ELSE Ok(<<>>)

\* (mutant) the extension is compared as written, without toLowerCase
validateExtension_caseSensitive(filename) ==
    IF extname(filename) \in BLOCKED_EXTENSIONS
    THEN Throw("BlockedExtension")
    ELSE Ok(<<>>)

validateExtension(filename) ==
    LET ext == toLowerCase(extname(filename))
    IN  IF ext \in BLOCKED_EXTENSIONS
        THEN Throw("BlockedExtension")
        ELSE Ok(<<>>)

verifyFileSignature(buffer, expectedMimetype) ==
    IF expectedMimetype \notin DOMAIN FILE_SIGNATURES
    THEN Ok(<<>>)
    ELSE LET signature == FILE_SIGNATURES[expectedMimetype]
             matches   == \A index \in 0..(Len(signature) - 1) :
                              ByteIs(buffer, index, signature[index + 1])
         IN  IF ~matches THEN Throw("SignatureMismatch") ELSE Ok(<<>>)

\* (mutant) a payload of exactly maxSize bytes is refused
validateFileSize_inclusive(size, maxSize) ==
    IF size >= maxSize THEN Throw("SizeExceeded") ELSE Ok(<<>>)

validateFileSize(size, maxSize) ==
    IF size > maxSize THEN Throw("SizeExceeded") ELSE Ok(<<>>)

\* `${timestamp}-${random}${ext}`: timestamp in decimal digits, random in
\* base 36, both drawn by the caller of this operator
generateSafeFilename(originalFilename, timestamp, random) ==
    timestamp \o <<"-">> \o random \o extname(originalFilename)

-----------------------------------------------------------------------------
(* S3Service *)

\* a backend call that went through
NoFailure == [name |-> "", code |-> "", message |-> ""]

\* failures of the SDK: name and code as the SDK sets them ("" is absent)
S3Failures == {
    [name |-> "AccessDenied", code |-> "",             message |-> "m-denied"],
    [name |-> "Error",        code |-> "ECONNREFUSED", message |-> "m-refused"],
    [name |-> "",             code |-> "ETIMEDOUT",    message |-> "m-timeout"],
    [name |-> "KMS.Disabled", code |-> "",             message |-> "m-kms"] }

NoSuchKeyFailure == [name |-> "NoSuchKey", code |-> "", message |-> "m-nokey"]

errorMap == [n \in {"NoSuchBucket", "NoSuchKey", "AccessDenied",
                    "InvalidAccessKeyId", "SignatureDoesNotMatch",
                    "RequestTimeout", "ServiceUnavailable", "InternalError",
                    "SlowDown", "EntityTooLarge", "ECONNREFUSED", "ETIMEDOUT",
                    "ENOTFOUND"} |->
    CASE n = "NoSuchBucket"          -> "S3 bucket not found"
      [] n = "NoSuchKey"             -> "File not found in S3"
      [] n = "AccessDenied"          -> "Access denied to S3 resource"
      [] n = "InvalidAccessKeyId"    -> "Invalid S3 credentials"
      [] n = "SignatureDoesNotMatch" -> "Invalid S3 signature"
      [] n = "RequestTimeout"        -> "S3 request timed out"
      [] n = "ServiceUnavailable"    -> "S3 service temporarily unavailable"
      [] n = "InternalError"         -> "S3 internal error"
      [] n = "SlowDown"              -> "Too many S3 requests, please slow down"
      [] n = "EntityTooLarge"        -> "File is too large"
      [] n = "ECONNREFUSED"          -> "Cannot connect to S3 service"
      [] n = "ETIMEDOUT"             -> "S3 connection timed out"
      [] n = "ENOTFOUND"             -> "S3 endpoint not found"]

\* (mutant) the backend's own message is appended to the message handed on
handleS3Error_verbose(error, operation) ==
    LET errorName   == IF error.name # "" THEN error.name ELSE error.code
        userMessage == IF errorName \in DOMAIN errorMap
                       THEN <<errorMap[errorName]>>
                       ELSE <<"S3 ", operation, " operation failed">>
    IN  [name |-> errorName, message |-> userMessage \o <<": ", error.message>>,
         originalError |-> error]

\* the error S3Service throws for a failed backend call
handleS3Error(error, operation) ==
    LET errorName   == IF error.name # "" THEN error.name ELSE error.code
        userMessage == IF errorName \in DOMAIN errorMap
                       THEN <<errorMap[errorName]>>
                       ELSE <<"S3 ", operation, " operation failed">>
    IN  [name |-> errorName, message |-> userMessage, originalError |-> error]

\* the outcome of a backend call as S3Service hands it on
S3Result(failure, operation, value) ==
    IF failure = NoFailure
    THEN Ok(value)
    ELSE [ok |-> FALSE, val |-> handleS3Error(failure, operation), err |-> "S3Error"]

\* getSignedUrl: a URL for one command on one key, valid for expiresIn seconds
\* from the moment it is signed
SignedUrl(command, key, expiresIn, signedAt) ==
    [command |-> command, key |-> key, expiresIn |-> expiresIn, at |-> signedAt]

\* the default expiresIn of getUploadUrl and getDownloadUrl
DEFAULT_EXPIRES_IN == 3600

\* requestTimeout of the client's request handler, in milliseconds
REQUEST_TIMEOUT_MS == 30000

\* the bucket after a completed upload of body under key
Put(bucket, key, body) ==
    [k \in DOMAIN bucket \cup {key} |-> IF k = key THEN body ELSE bucket[k]]

\* the bucket after DeleteObject of key
Remove(bucket, key) == [k \in DOMAIN bucket \ {key} |-> bucket[k]]

-----------------------------------------------------------------------------
(* A handler's run: the calls it has made and the state it has reached *)

NoResp == [ok |-> FALSE, val |-> <<>>, err |-> "pending"]

StartAt(bucket, urls, t) ==
    [thrown |-> FALSE, last |-> NoResp, calls |-> <<>>,
     store |-> bucket, cache |-> urls, now |-> t]

Start(bucket, urls) == StartAt(bucket, urls, now)

\* d milliseconds pass while the handler awaits
Elapse(c, d) == IF c.thrown THEN c ELSE [c EXCEPT !.now = @ + d]

\* One awaited call of a handler.  Once a call has thrown, control has left
\* the try block and the calls after it are not made.
Invoke(c, op, arg, result) ==
    IF c.thrown THEN c
    ELSE [c EXCEPT !.calls  = Append(@, [op |-> op, arg |-> arg,
                                         ok |-> result.ok, out |-> result.val]),
                   !.thrown = ~result.ok,
                   !.last   = result]

\* what the handler hands to its caller: the error it rethrows, or its data
Respond(c, data) == IF c.thrown THEN c.last ELSE Ok(data)

\* (mutant) the transfer is started without awaiting the calls before it, so
\* it runs although one of them has thrown
s3_uploadFile_eager(c, key, body, failure) ==
    LET c1 == Invoke([c EXCEPT !.thrown = FALSE], "s3.uploadFile", key,
                     S3Result(failure, "upload", <<>>))
    IN  IF c1.thrown THEN c1
        ELSE [c1 EXCEPT !.store = Put(@, key, body),
                        !.thrown = c.thrown,
                        !.last = IF c.thrown THEN c.last ELSE @]

\* queueSize and partSize of the Upload: parts in flight, bytes per part
QUEUE_SIZE == 4
PART_SIZE == 5242880

\* S3Service.uploadFile: lib-storage Upload with leavePartsOnError false, so
\* a failed transfer leaves no object under key
s3_uploadFile(c, key, body, failure) ==
    LET c1 == Invoke(c, "s3.uploadFile", key, S3Result(failure, "upload", <<>>))
    IN  IF c.thrown \/ c1.thrown THEN c1
        ELSE [c1 EXCEPT !.store = Put(@, key, body)]

\* S3Service.getFileStream: GetObject, NoSuchKey when nothing is stored there
s3_getFileStream(c, key, failure) ==
    LET present == key \in DOMAIN c.store
        f       == IF failure = NoFailure /\ ~present
                   THEN NoSuchKeyFailure ELSE failure
    IN  Invoke(c, "s3.getFileStream", key,
               S3Result(f, "read", IF present THEN c.store[key] ELSE <<>>))

\* S3Service.deleteFile: DeleteObject, which succeeds on an absent key too
s3_deleteFile(c, key, failure) ==
    LET c1 == Invoke(c, "s3.deleteFile", key, S3Result(failure, "delete", <<>>))
    IN  IF c.thrown \/ c1.thrown THEN c1
        ELSE [c1 EXCEPT !.store = Remove(@, key)]

s3_getUploadUrl(c, key, failure) ==
    Invoke(c, "s3.getUploadUrl", key,
           S3Result(failure, "presign",
                    SignedUrl("PutObject", key, DEFAULT_EXPIRES_IN, c.now)))

s3_getDownloadUrl(c, key, failure) ==
    Invoke(c, "s3.getDownloadUrl", key,
           S3Result(failure, "presign",
                    SignedUrl("GetObject", key, DEFAULT_EXPIRES_IN, c.now)))

\* cacheManager.get yields undefined for a key it does not hold
NoUrl == [command |-> "undefined", key |-> <<>>, expiresIn |-> 0, at |-> 0]

\* the ttl, in milliseconds, getDownloadUrl stores a URL with
CACHE_TTL_MS == 3000000

\* (mutant) one cache key for every object key
CacheKey_shared(sanitizedKey) == <<"presigned:">>

CacheKey(sanitizedKey) == <<"presigned:">> \o sanitizedKey

\* (mutant) an entry is served however old it is
Fresh_forever(c, cacheKey) == cacheKey \in DOMAIN c.cache

\* the cache holds an entry under cacheKey whose ttl has not run out
Fresh(c, cacheKey) ==
    /\ cacheKey \in DOMAIN c.cache
    /\ c.now < c.cache[cacheKey].at + c.cache[cacheKey].ttl

cache_get(c, cacheKey) ==
    Invoke(c, "cache.get", cacheKey,
           Ok(IF Fresh(c, cacheKey) THEN c.cache[cacheKey].url ELSE NoUrl))

\* (mutant) cacheManager.set stores nothing
cache_set_dropped(c, cacheKey, url, ttl) ==
    Invoke(c, "cache.set", cacheKey, Ok(url))

cache_set(c, cacheKey, url, ttl) ==
    LET c1 == Invoke(c, "cache.set", cacheKey, Ok(url))
    IN  IF c.thrown THEN c
        ELSE [c1 EXCEPT !.cache =
                 [k \in DOMAIN @ \cup {cacheKey} |->
                     IF k = cacheKey THEN [url |-> url, ttl |-> ttl, at |-> c.now]
                     ELSE @[k]]]

\* (mutant) cacheManager.del removes nothing
cache_del_kept(c, cacheKey) ==
    Invoke(c, "cache.del", cacheKey, Ok(<<>>))

cache_del(c, cacheKey) ==
    LET c1 == Invoke(c, "cache.del", cacheKey, Ok(<<>>))
    IN  IF c.thrown THEN c
        ELSE [c1 EXCEPT !.cache = [k \in DOMAIN @ \ {cacheKey} |-> @[k]]]

-----------------------------------------------------------------------------
(* FilesService: the handlers on a caller-supplied key *)

getFile(r, c0, e) ==
    LET c1           == Invoke(c0, "sanitizeFileKey", r.key, sanitizeFileKey(r.key))
        sanitizedKey == c1.last.val
        c2           == s3_getFileStream(c1, sanitizedKey, e.s3)
    IN  [c2 EXCEPT !.last = Respond(c2, c2.last.val)]

\* (mutant) the cache entry is removed before the backend delete is awaited
deleteFile_invalidateFirst(r, c0, e) ==
    LET c1           == Invoke(c0, "sanitizeFileKey", r.key, sanitizeFileKey(r.key))
        sanitizedKey == c1.last.val
        c2           == cache_del(c1, CacheKey(sanitizedKey))
        c3           == s3_deleteFile(c2, sanitizedKey, e.s3)
    IN  [c3 EXCEPT !.last = Respond(c3, [success |-> TRUE])]

deleteFile(r, c0, e) ==
    LET c1           == Invoke(c0, "sanitizeFileKey", r.key, sanitizeFileKey(r.key))
        sanitizedKey == c1.last.val
        c2           == s3_deleteFile(c1, sanitizedKey, e.s3)
        c3           == cache_del(c2, CacheKey(sanitizedKey))
    IN  [c3 EXCEPT !.last = Respond(c3, [success |-> TRUE])]

getDownloadUrl(r, c0, e) ==
    LET c1           == Invoke(c0, "sanitizeFileKey", r.key, sanitizeFileKey(r.key))
        sanitizedKey == c1.last.val
        cacheKey     == CacheKey(sanitizedKey)
        c2           == cache_get(c1, cacheKey)
        hit          == ~c2.thrown /\ c2.last.val # NoUrl
        c3           == s3_getDownloadUrl(c2, sanitizedKey, e.s3)
        url          == c3.last.val
        c4           == cache_set(Elapse(c3, e.delay), cacheKey, url, CACHE_TTL_MS)
    IN  IF hit
        THEN [c2 EXCEPT !.last = Ok([url |-> c2.last.val, cached |-> TRUE])]
        ELSE [c4 EXCEPT !.last = Respond(c4, [url |-> url, cached |-> FALSE])]

\* `${Date.now()}-${Math.random().toString(36).substring(7)}${ext}` under type
getPresignedUrl(r, c0, e) ==
    LET ext            == extname(r.filename)
        uniqueFilename == e.timestamp \o <<"-">> \o e.random \o ext
        key            == r.type \o <<"/">> \o uniqueFilename
        c1             == s3_getUploadUrl(c0, key, e.s3)
    IN  [c1 EXCEPT !.last = Respond(c1, [uploadUrl |-> c1.last.val, key |-> key,
                                         filename |-> uniqueFilename])]

-----------------------------------------------------------------------------
(* FilesService.uploadFile *)

\* (mutant) the plugin is registered without limits.fileSize
toBuffer_unlimited(file) == Ok(file.content)

\* the multipart plugin's file.toBuffer(): it throws once the payload has
\* passed limits.fileSize
toBuffer(file) ==
    IF file.content.length > FILE_SIZE_LIMIT
    THEN Throw("FileTooLarge")
    ELSE Ok(file.content)

\* (mutant) every upload without a folder hint goes to documents
DefaultFolder_documents(mimetype) == <<"d", "o", "c", "u", "m", "e", "n", "t", "s">>

\* the folder chosen from the MIME type when the caller names none
DefaultFolder(mimetype) ==
    IF Len(mimetype) >= 2 /\ mimetype[1] = "image"
    THEN <<"i", "m", "a", "g", "e", "s">>
    ELSE IF Len(mimetype) >= 2 /\ mimetype[1] = "audio"
         THEN <<"r", "e", "c", "o", "r", "d", "i", "n", "g", "s">>
         ELSE <<"d", "o", "c", "u", "m", "e", "n", "t", "s">>

\* the data of a successful upload
UploadData(key, uniqueFilename, filename, url, size, mimetype, folder) ==
    [key |-> key, filename |-> uniqueFilename, originalFilename |-> filename,
     url |-> url, size |-> size, mimetype |-> mimetype, folder |-> folder]

\* buffer-then-stream: the whole payload is buffered, validated, then sent
uploadFile(r, c0, e) ==
    LET filename       == r.file.filename
        mimetype       == r.file.mimetype
        c1             == Invoke(c0, "validateMimeType", mimetype,
                                 validateMimeType(mimetype))
        c2             == Invoke(c1, "validateExtension", filename,
                                 validateExtension(filename))
        c3             == Invoke(c2, "file.toBuffer", filename, toBuffer(r.file))
        fullBuffer     == c3.last.val
        c4             == Invoke(c3, "validateFileSize", fullBuffer.length,
                                 validateFileSize(fullBuffer.length, MAX_FILE_SIZE))
        previewBuffer  == Slice(fullBuffer, Min(fullBuffer.length, MAX_PREVIEW))
        c5             == Invoke(c4, "verifyFileSignature", previewBuffer,
                                 verifyFileSignature(previewBuffer, mimetype))
        uniqueFilename == generateSafeFilename(filename, e.timestamp, e.random)
        custom         == r.customFolder # <<>>
        c6             == IF custom
                          THEN Invoke(c5, "sanitizeFileKey", r.customFolder,
                                      sanitizeFileKey(r.customFolder))
                          ELSE c5
        folder         == IF custom THEN c6.last.val ELSE DefaultFolder(mimetype)
        key            == folder \o <<"/">> \o uniqueFilename
        c7             == s3_uploadFile(c6, key, fullBuffer, e.s3)
        c8             == s3_getDownloadUrl(c7, key, e.sign)
    IN  [c8 EXCEPT !.last =
            Respond(c8, UploadData(key, uniqueFilename, filename, c8.last.val,
                                   fullBuffer.length, mimetype, folder))]

\* FileValidator.validateFile: the gates on a file and its buffer, in the
\* order of the code; the first error is caught and returned as a value
validateFile(r, c0) ==
    LET filename == r.file.filename
        mimetype == r.file.mimetype
        buffer   == r.file.content
        c1       == Invoke(c0, "validateMimeType", mimetype,
                           validateMimeType(mimetype))
        c2       == Invoke(c1, "validateExtension", filename,
                           validateExtension(filename))
        c3       == Invoke(c2, "validateFileSize", buffer.length,
                           validateFileSize(buffer.length, MAX_FILE_SIZE))
        c4       == Invoke(c3, "verifyFileSignature", buffer,
                           verifyFileSignature(buffer, mimetype))
    IN  [c4 EXCEPT !.thrown = FALSE,
                   !.last = IF c4.thrown
                            THEN Ok([valid |-> FALSE, error |-> c4.last.err])
                            ELSE Ok([valid |-> TRUE, error |-> "none"])]

\* buffer without its first n bytes; the bytes after the head are zero
Drop(buffer, n) ==
    LET len  == IF n >= buffer.length THEN 0 ELSE buffer.length - n
        rest == IF n >= Len(buffer.head) THEN <<>>
                ELSE SubSeq(buffer.head, n + 1, Len(buffer.head))
    IN  [head   |-> [i \in 1..Min(len, HeadLen) |->
                        IF i <= Len(rest) THEN rest[i] ELSE 0],
         length |-> len]

\* preview-then-refetch: chunks are read until more than MAX_PREVIEW bytes
\* have come (e.overshoot bytes past the window), the gates see the preview,
\* and the payload is then read a second time with toBuffer, which yields
\* the whole payload again or only what the first read left (e.reread)
uploadFilePreview(r, c0, e) ==
    LET content        == r.file.content
        total          == IF content.length <= MAX_PREVIEW THEN content.length
                          ELSE Min(content.length, MAX_PREVIEW + e.overshoot)
        previewBuffer  == Slice(content, Min(total, MAX_PREVIEW))
        truncated      == content.length > FILE_SIZE_LIMIT /\ total >= FILE_SIZE_LIMIT
        filename       == r.file.filename
        mimetype       == r.file.mimetype
        c1             == Invoke(c0, "validateMimeType", mimetype,
                                 validateMimeType(mimetype))
        c2             == Invoke(c1, "validateExtension", filename,
                                 validateExtension(filename))
        size           == IF truncated THEN MAX_PREVIEW ELSE previewBuffer.length
        c3             == Invoke(c2, "validateFileSize", size,
                                 validateFileSize(size, MAX_FILE_SIZE))
        c4             == Invoke(c3, "verifyFileSignature", previewBuffer,
                                 verifyFileSignature(previewBuffer, mimetype))
        uniqueFilename == generateSafeFilename(filename, e.timestamp, e.random)
        custom         == r.customFolder # <<>>
        c5             == IF custom
                          THEN Invoke(c4, "sanitizeFileKey", r.customFolder,
                                      sanitizeFileKey(r.customFolder))
                          ELSE c4
        folder         == IF custom THEN c5.last.val ELSE DefaultFolder(mimetype)
        key            == folder \o <<"/">> \o uniqueFilename
        second         == IF ~toBuffer(r.file).ok THEN toBuffer(r.file)
                          ELSE IF e.reread = "full" THEN Ok(content)
                               ELSE Ok(Drop(content, total))
        c6             == Invoke(c5, "file.toBuffer", filename, second)
        fullBuffer     == c6.last.val
        c7             == s3_uploadFile(c6, key, fullBuffer, e.s3)
        c8             == s3_getDownloadUrl(c7, key, e.sign)
    IN  [c8 EXCEPT !.last =
            Respond(c8, UploadData(key, uniqueFilename, filename, c8.last.val,
                                   fullBuffer.length, mimetype, folder))]

-----------------------------------------------------------------------------
(* The first revision of FilesService and S3Service: no validation, no     *)
(* sanitizer, no cache, backend errors handed on as they come              *)

LegacyS3Result(failure, value) ==
    IF failure = NoFailure
    THEN Ok(value)
    ELSE [ok |-> FALSE, val |-> failure, err |-> "S3Error"]

legacyUploadFile(r, c0, e) ==
    LET filename       == r.file.filename
        mimetype       == r.file.mimetype
        c1             == Invoke(c0, "file.toBuffer", filename, toBuffer(r.file))
        buffer         == c1.last.val
        uniqueFilename == e.timestamp \o <<"-">> \o e.random \o extname(filename)
        folder         == DefaultFolder(mimetype)
        key            == folder \o <<"/">> \o uniqueFilename
        c2             == Invoke(c1, "s3.uploadFile", key,
                                 LegacyS3Result(e.s3, <<>>))
        c3             == IF c1.thrown \/ c2.thrown THEN c2
                          ELSE [c2 EXCEPT !.store = Put(@, key, buffer)]
        c4             == Invoke(c3, "s3.getDownloadUrl", key,
                                 LegacyS3Result(e.sign,
                                     SignedUrl("GetObject", key, DEFAULT_EXPIRES_IN,
                                               c3.now)))
    IN  [c4 EXCEPT !.last = Respond(c4, [key |-> key, filename |-> filename,
                                         url |-> c4.last.val])]

legacyGetFile(r, c0, e) ==
    LET present == r.key \in DOMAIN c0.store
        f       == IF e.s3 = NoFailure /\ ~present THEN NoSuchKeyFailure ELSE e.s3
        c1      == Invoke(c0, "s3.getFileStream", r.key,
                          LegacyS3Result(f, IF present THEN c0.store[r.key] ELSE <<>>))
    IN  [c1 EXCEPT !.last = Respond(c1, c1.last.val)]

legacyDeleteFile(r, c0, e) ==
    LET c1 == Invoke(c0, "s3.deleteFile", r.key, LegacyS3Result(e.s3, <<>>))
        c2 == IF c1.thrown THEN c1 ELSE [c1 EXCEPT !.store = Remove(@, r.key)]
    IN  [c2 EXCEPT !.last = Respond(c2, [success |-> TRUE])]

-----------------------------------------------------------------------------
(* The requests and the environment the model draws from *)

Alphabet == {"a", ".", "/", "$"}

\* MaxLength of FileKeyDto.key
MAX_KEY_LENGTH == 500

RawKeys ==
    SeqsUpTo(Alphabet, MaxKeyLen)
        \cup {Repeat("a", MAX_KEY_LENGTH), Repeat("a", MAX_KEY_LENGTH + 1)}

Filenames == {
    <<"a", ".", "p", "d", "f">>,
    <<"a">>,
    <<"a", ".", "e", "x", "e">>,
    <<"a", ".", "E", "x", "E">>,
    <<"a", ".", "S", "H">>,
    <<".", "e", "x", "e">>,
    <<"a", ".", "p", "$", "f">> }

Mimetypes == {
    <<"application", "pdf">>, <<"image", "png">>, <<"text", "plain">>,
    <<"audio", "mpeg">>, <<"application", "x-msdownload">> }

\* folder hints; <<>> is a request without one
Folders == {
    <<>>, <<"a">>, <<"a", "/">>, <<".", ".", "/", "a">>, <<"a", "$">>,
    <<".", ".">>, Repeat("a", MAX_KEY_LENGTH + 1) }

Types == { <<"a">>, <<"a", "/">>, <<".", ".", "/", "a">>, <<"a", "$">> }

\* s followed by zero bytes, HeadLen bytes in all
Padded(s) == [i \in 1..HeadLen |-> IF i <= Len(s) THEN s[i] ELSE 0]

\* s with its last byte changed
Corrupted(s) == [i \in 1..Len(s) |-> IF i = Len(s) THEN (s[i] + 1) % 256 ELSE s[i]]

Heads ==
    {Padded(FILE_SIGNATURES[m]) : m \in SignedTypes \cap Mimetypes}
        \cup {Padded(Corrupted(FILE_SIGNATURES[m])) : m \in SignedTypes \cap Mimetypes}
        \cup {Padded(<<>>)}

Sizes == {0, 3, 2048, MAX_PREVIEW + 1, MAX_FILE_SIZE, MAX_FILE_SIZE + 1}

\* payloads: a head followed by zero bytes, cut to the size
Contents ==
    {[head |-> SubSeq(h, 1, Min(n, HeadLen)), length |-> n] : h \in Heads, n \in Sizes}

Files == [filename : Filenames, mimetype : Mimetypes, content : Contents]

KeyOps == {"getFile", "deleteFile", "getDownloadUrl"}
LegacyKeyOps == {"legacyGetFile", "legacyDeleteFile"}
UploadOps == {"uploadFile", "uploadFilePreview"}

Requests ==
    [op : KeyOps \cup LegacyKeyOps, key : RawKeys]
        \cup [op : {"getPresignedUrl"}, filename : Filenames, type : Types]
        \cup [op : UploadOps, file : Files, customFolder : Folders]
        \cup [op : {"legacyUploadFile"}, file : Files]
        \cup [op : {"validateFile"}, file : Files]

Timestamps == {<<"1", "7">>}
Randoms == {<<"r">>, <<"x", "9">>}
Outcomes == {NoFailure} \cup S3Failures
\* the outcomes drawn for the two backend calls of an upload
TransferOutcomes == {NoFailure, CHOOSE f \in S3Failures : f.name = "AccessDenied"}
Overshoots == {1, 65536}
\* the time getDownloadUrl can spend between the signing and cache.set
Delays == {0, REQUEST_TIMEOUT_MS}
Rereads == {"full", "rest"}

\* no request has been served before
NoPrev == [req |-> [op |-> "none"], resp |-> NoResp, calls |-> <<>>, at |-> 0]

\* The state a request arrives in: one object is stored and its download
\* URL is cached; no other key is stored or cached.
SeedKey == <<"a">>
SeedObject == [head |-> Padded(FILE_SIGNATURES[<<"application", "pdf">>]), length |-> 2048]
SeedStore == [k \in {SeedKey} |-> SeedObject]
SeedCache == [k \in {CacheKey(SeedKey)} |->
                 [url |-> SignedUrl("GetObject", SeedKey, DEFAULT_EXPIRES_IN, 0),
                  ttl |-> CACHE_TTL_MS, at |-> 0]]

-----------------------------------------------------------------------------
(* The process: S3Service's construction and initialisation, bootstrap() *)

\* the variables the constructor of S3Service requires
requiredEnvVars == {"S3_BUCKET_NAME", "S3_ACCESS_KEY_ID",
                    "S3_SECRET_ACCESS_KEY", "S3_REGION"}

\* process.env[v]: undefined, the empty string, or a value
EnvValues == {"undefined", "", "v"}

Envs == [requiredEnvVars -> EnvValues]

\* requiredEnvVars.filter((v) => !process.env[v])
missing(env) == {v \in requiredEnvVars : env[v] \in {"undefined", ""}}

\* new S3Service(): throws when a required variable is missing
constructor(env) ==
    IF missing(env) # {}
    THEN Throw("Missing required S3 environment variables")
    ELSE Ok(env["S3_BUCKET_NAME"])

\* HeadBucket on the bucket; the SDK's error is thrown as it is
verifyBucketAccess(failure) ==
    IF failure = NoFailure
    THEN Ok(<<>>)
    ELSE [ok |-> FALSE, val |-> failure, err |-> "HeadBucketFailed"]

\* (mutant) the failed verification is logged and not rethrown
onModuleInit_logOnly(failure) == Ok(<<>>)

\* S3Service.onModuleInit: rethrows a failed verification
onModuleInit(failure) ==
    IF verifyBucketAccess(failure).ok
    THEN Ok(<<>>)
    ELSE Throw("S3 bucket verification failed")

\* (mutant) the probe's error is handed on to the caller
healthCheck_rethrow(c, failure) ==
    LET c1 == Invoke(c, "s3.verifyBucketAccess", <<>>, verifyBucketAccess(failure))
    IN  IF c1.thrown THEN c1 ELSE [c1 EXCEPT !.last = Ok(TRUE)]

\* S3Service.healthCheck: the probe, true when it went through, false and a
\* log line when it threw
healthCheck(c, failure) ==
    LET c1 == Invoke(c, "s3.verifyBucketAccess", <<>>, verifyBucketAccess(failure))
    IN  [c1 EXCEPT !.thrown = FALSE, !.last = Ok(~c1.thrown)]

\* FilesController.health: always answers, with the probe's outcome
health(c0, failure) ==
    LET c1       == healthCheck(c0, failure)
        s3Status == c1.last.val
    IN  IF c1.thrown THEN c1
        ELSE [c1 EXCEPT !.last = Ok([success |-> s3Status, s3Connected |-> s3Status])]

\* the positions of bootstrap(): "start", "created" (NestFactory.create has
\* returned), "configured" (plugins, pipes and prefix are set), "initialised"
\* (the modules' onModuleInit hooks have run), "listening", "rejected" (the
\* promise of bootstrap() is rejected) and "exited"
Process(phase, env) ==
    [phase |-> phase, env |-> env, verified |-> FALSE, error |-> "none",
     exited |-> FALSE, code |-> 0]

\* the process of a service that is serving requests
Listening ==
    [Process("listening", [v \in requiredEnvVars |-> "v"]) EXCEPT !.verified = TRUE]

-----------------------------------------------------------------------------
(* The state machine: one request, served from a state the service can be in *)

Init ==
    /\ req \in Requests
    /\ resp = NoResp
    /\ calls = <<>>
    /\ store = SeedStore
    /\ cache = SeedCache
    /\ now = 0
    /\ prev = NoPrev
    /\ uploaded = {}
    /\ served = 0
    /\ proc = Listening
    /\ tasks = << >>

\* the handler has run to its return or its throw
Serve(c) ==
    /\ resp' = c.last
    /\ calls' = c.calls
    /\ store' = c.store
    /\ cache' = c.cache
    /\ now' = c.now
    /\ served' = served + 1
    /\ UNCHANGED <<req, prev, uploaded, proc, tasks>>

Pending(op) == resp = NoResp /\ req.op = op

GetFile ==
    /\ Pending("getFile")
    /\ \E f \in Outcomes : Serve(getFile(req, Start(store, cache), [s3 |-> f]))

DeleteFile ==
    /\ Pending("deleteFile")
    /\ \E f \in Outcomes : Serve(deleteFile(req, Start(store, cache), [s3 |-> f]))

GetDownloadUrl ==
    /\ Pending("getDownloadUrl")
    /\ \E f \in Outcomes, d \in Delays :
           Serve(getDownloadUrl(req, Start(store, cache), [s3 |-> f, delay |-> d]))

GetPresignedUrl ==
    /\ Pending("getPresignedUrl")
    /\ \E t \in Timestamps, n \in Randoms, f \in Outcomes :
           Serve(getPresignedUrl(req, Start(store, cache),
                                 [timestamp |-> t, random |-> n, s3 |-> f]))

UploadFile ==
    /\ Pending("uploadFile")
    /\ \E t \in Timestamps, n \in Randoms, f \in TransferOutcomes, g \in TransferOutcomes :
           Serve(uploadFile(req, Start(store, cache),
                            [timestamp |-> t, random |-> n, s3 |-> f, sign |-> g]))

UploadFilePreview ==
    /\ Pending("uploadFilePreview")
    /\ \E t \in Timestamps, n \in Randoms, f \in TransferOutcomes, g \in TransferOutcomes,
          o \in Overshoots, rr \in Rereads :
           Serve(uploadFilePreview(req, Start(store, cache),
                     [timestamp |-> t, random |-> n, s3 |-> f, sign |-> g,
                      overshoot |-> o, reread |-> rr]))

LegacyUploadFile ==
    /\ Pending("legacyUploadFile")
    /\ \E t \in Timestamps, n \in Randoms, f \in TransferOutcomes, g \in TransferOutcomes :
           Serve(legacyUploadFile(req, Start(store, cache),
                     [timestamp |-> t, random |-> n, s3 |-> f, sign |-> g]))

LegacyGetFile ==
    /\ Pending("legacyGetFile")
    /\ \E f \in Outcomes : Serve(legacyGetFile(req, Start(store, cache), [s3 |-> f]))

LegacyDeleteFile ==
    /\ Pending("legacyDeleteFile")
    /\ \E f \in Outcomes :
           Serve(legacyDeleteFile(req, Start(store, cache), [s3 |-> f]))

ValidateFile ==
    /\ Pending("validateFile")
    /\ Serve(validateFile(req, Start(store, cache)))

Next ==
    \/ GetFile
    \/ DeleteFile
    \/ GetDownloadUrl
    \/ GetPresignedUrl
    \/ UploadFile
    \/ UploadFilePreview
    \/ LegacyUploadFile
    \/ LegacyGetFile
    \/ LegacyDeleteFile
    \/ ValidateFile

Spec == Init /\ [][Next]_vars

-----------------------------------------------------------------------------
(* The state machine of a run of requests: requests are served one after   *)
(* the other, time passes between them, and the bucket and the cache are   *)
(* carried from one request to the next                                    *)

\* the requests of a run
MaxRequests == 3

\* the time between two requests of a run: the next millisecond, or one
\* millisecond less than the cache TTL (the two together are the TTL)
Elapsed == {1, CACHE_TTL_MS - 1}

\* the uploads of a run: PDFs of 2 KB and of 3 KB with the PDF signature,
\* sent without folder hint
SessionFiles ==
    {[filename |-> <<"a", ".", "p", "d", "f">>,
      mimetype |-> <<"application", "pdf">>,
      content  |-> [SeedObject EXCEPT !.length = n]] : n \in {2048, 3072}}

\* Math.random() in the uploads of a run: they draw the same suffix, so that
\* with the same reading of Date.now() (the wall clock, which Timestamps
\* draws apart from the elapsed time) a later upload generates the key of an
\* earlier one
SessionRandoms == {<<"r">>}

\* the keys a run asks for: the stored and the uploaded ones, and one that
\* the sanitizer changes
SessionKeys == DOMAIN store \cup uploaded \cup {<<"/">> \o SeedKey}

\* the keys under which the calls of a handler run stored an object
Written(c) ==
    {c.calls[i].arg : i \in {j \in DOMAIN c.calls :
                                 c.calls[j].op = "s3.uploadFile" /\ c.calls[j].ok}}

SessionInit ==
    /\ req = [op |-> "none"]
    /\ resp = NoResp
    /\ calls = <<>>
    /\ store = SeedStore
    /\ cache = << >>
    /\ now = 0
    /\ prev = NoPrev
    /\ uploaded = {}
    /\ served = 0
    /\ proc = Listening
    /\ tasks = << >>

\* request r arrives at time r.at and its handler runs to its return or its throw
SessionServe(r, c) ==
    /\ req' = r
    /\ resp' = c.last
    /\ calls' = c.calls
    /\ store' = c.store
    /\ cache' = c.cache
    /\ now' = c.now
    /\ prev' = [req |-> req, resp |-> resp, calls |-> calls, at |-> now]
    /\ uploaded' = uploaded \cup Written(c)
    /\ served' = served + 1
    /\ UNCHANGED <<proc, tasks>>

SessionUpload ==
    /\ served < MaxRequests
    /\ \E d \in Elapsed, file \in SessionFiles, t \in Timestamps, n \in SessionRandoms,
          f \in TransferOutcomes, g \in TransferOutcomes :
           LET r == [op |-> "uploadFile", file |-> file, customFolder |-> <<>>,
                     at |-> now + d]
           IN  SessionServe(r, uploadFile(r, StartAt(store, cache, now + d),
                                [timestamp |-> t, random |-> n, s3 |-> f, sign |-> g]))

SessionDelete ==
    /\ served < MaxRequests
    /\ \E d \in Elapsed, k \in SessionKeys, f \in TransferOutcomes :
           LET r == [op |-> "deleteFile", key |-> k, at |-> now + d]
           IN  SessionServe(r, deleteFile(r, StartAt(store, cache, now + d), [s3 |-> f]))

SessionGetDownloadUrl ==
    /\ served < MaxRequests
    /\ \E d \in Elapsed, k \in SessionKeys, f \in TransferOutcomes, w \in Delays :
           LET r == [op |-> "getDownloadUrl", key |-> k, at |-> now + d]
           IN  SessionServe(r, getDownloadUrl(r, StartAt(store, cache, now + d),
                                [s3 |-> f, delay |-> w]))

SessionNext ==
    \/ SessionUpload
    \/ SessionDelete
    \/ SessionGetDownloadUrl

Session == SessionInit /\ [][SessionNext]_vars

-----------------------------------------------------------------------------
(* The state machine of the start: bootstrap() from its first line to the  *)
(* listening server, the health route served by it, and the shutdown       *)

\* health requests served by one run
MaxProbes == 3

StartupInit ==
    /\ proc \in {Process("start", env) : env \in Envs}
    /\ req = [op |-> "none"]
    /\ resp = NoResp
    /\ calls = <<>>
    /\ store = SeedStore
    /\ cache = SeedCache
    /\ now = 0
    /\ prev = NoPrev
    /\ uploaded = {}
    /\ served = 0
    /\ tasks = << >>

Idle == UNCHANGED <<store, cache, req, resp, calls, now, prev, uploaded, served, tasks>>

\* the promise of bootstrap() is rejected with the error of result
Rejected(result) == [proc EXCEPT !.phase = "rejected", !.error = result.err]

\* await NestFactory.create(AppModule, ...): the providers are instantiated
Create ==
    /\ proc.phase = "start"
    /\ LET r == constructor(proc.env)
       IN  proc' = IF r.ok THEN [proc EXCEPT !.phase = "created"] ELSE Rejected(r)
    /\ Idle

\* the plugins are registered, pipes, documentation and prefix are set
Configure ==
    /\ proc.phase = "created"
    /\ proc' = [proc EXCEPT !.phase = "configured"]
    /\ Idle

\* await app.listen(port): first the application is initialised, which runs
\* the onModuleInit hooks; an error of a hook rejects listen()
ListenInit ==
    /\ proc.phase = "configured"
    /\ \E f \in Outcomes :
           LET r == onModuleInit(f)
           IN  proc' = IF r.ok
                       THEN [proc EXCEPT !.phase = "initialised",
                                         !.verified = verifyBucketAccess(f).ok]
                       ELSE Rejected(r)
    /\ Idle

\* app.listen(port), after the initialisation: the server binds the port
HttpListen ==
    /\ proc.phase = "initialised"
    /\ proc' = [proc EXCEPT !.phase = "listening"]
    /\ Idle

\* bootstrap().catch(...): the error is logged and the process exits with 1
BootstrapCatch ==
    /\ proc.phase = "rejected"
    /\ proc' = [proc EXCEPT !.phase = "exited", !.exited = TRUE, !.code = 1]
    /\ Idle

\* GET files/health on the listening server
Health ==
    /\ proc.phase = "listening"
    /\ served < MaxProbes
    /\ \E f \in Outcomes :
           LET c == health(Start(store, cache), f)
           IN  /\ req' = [op |-> "health"]
               /\ resp' = c.last
               /\ calls' = c.calls
               /\ store' = c.store
               /\ cache' = c.cache
               /\ now' = c.now
               /\ prev' = [req |-> req, resp |-> resp, calls |-> calls, at |-> now]
               /\ served' = served + 1
    /\ UNCHANGED <<uploaded, proc, tasks>>

\* SIGTERM or SIGINT: app.close(), then exit 0, or exit 1 when close threw
Shutdown ==
    /\ proc.phase = "listening"
    /\ \E closed \in BOOLEAN :
           proc' = [proc EXCEPT !.phase = "exited", !.exited = TRUE,
                                !.code = IF closed THEN 0 ELSE 1]
    /\ Idle

StartupNext ==
    \/ Create
    \/ Configure
    \/ ListenInit
    \/ HttpListen
    \/ BootstrapCatch
    \/ Health
    \/ Shutdown

Startup == StartupInit /\ [][StartupNext]_vars

\* the rejection handler of bootstrap() runs once the promise is rejected
StartupLive == Startup /\ WF_vars(BootstrapCatch)

-----------------------------------------------------------------------------
(* The state machine of concurrent requests: deleteFile and getDownloadUrl *)
(* handlers in flight together, each advancing from one await to the next  *)

\* handlers in flight in one run
MaxTasks == 2

\* the keys of the concurrent requests: two spellings of the seeded key,
\* another key, and a key the sanitizer rejects
ConcurrentKeys == {SeedKey, <<"/">> \o SeedKey, <<"b">>, <<"a", "?">>}

\* a handler that has been called and has not run yet
NewTask(op, key) ==
    [op |-> op, key |-> key, pc |-> "start", sanitizedKey |-> <<>>,
     url |-> NoUrl, resp |-> NoResp, startedAt |-> now, removedAt |-> 0]

ConcurrentInit ==
    /\ tasks = << >>
    /\ store = SeedStore
    /\ cache = << >>
    /\ now = 0
    /\ req = [op |-> "none"]
    /\ resp = NoResp
    /\ calls = <<>>
    /\ prev = NoPrev
    /\ uploaded = {}
    /\ served = 0
    /\ proc = Listening

\* getDownloadUrl up to its first backend await: the key is sanitized and
\* the cache is asked
getDownloadUrl_lookup(t, c0) ==
    LET c1           == Invoke(c0, "sanitizeFileKey", t.key, sanitizeFileKey(t.key))
        sanitizedKey == c1.last.val
        c2           == cache_get(c1, CacheKey(sanitizedKey))
        hit          == ~c2.thrown /\ c2.last.val # NoUrl
    IN  IF hit THEN [c2 EXCEPT !.last = Ok([url |-> c2.last.val, cached |-> TRUE])]
        ELSE c2

\* (mutant) the URL is put into the cache before the signing call is awaited
getDownloadUrl_sign_eager(t, c0, failure) ==
    LET c1 == cache_set(c0, CacheKey(t.sanitizedKey),
                        SignedUrl("GetObject", t.sanitizedKey, DEFAULT_EXPIRES_IN, c0.now),
                        CACHE_TTL_MS)
    IN  s3_getDownloadUrl(c1, t.sanitizedKey, failure)

\* the signing call of getDownloadUrl
getDownloadUrl_sign(t, c0, failure) == s3_getDownloadUrl(c0, t.sanitizedKey, failure)

\* getDownloadUrl after the signing call: the URL is stored and returned
getDownloadUrl_store(t, c0) ==
    LET c1 == cache_set(c0, CacheKey(t.sanitizedKey), t.url, CACHE_TTL_MS)
    IN  [c1 EXCEPT !.last = Respond(c1, [url |-> t.url, cached |-> FALSE])]

\* deleteFile up to the end of its backend await: the key is sanitized and
\* the object is deleted
deleteFile_remove(t, c0, failure) ==
    LET c1 == Invoke(c0, "sanitizeFileKey", t.key, sanitizeFileKey(t.key))
    IN  s3_deleteFile(c1, c1.last.val, failure)

\* deleteFile after the backend delete: the cache entry is removed
deleteFile_invalidate(t, c0) ==
    LET c1 == cache_del(c0, CacheKey(t.sanitizedKey))
    IN  [c1 EXCEPT !.last = Respond(c1, [success |-> TRUE])]

\* the sanitized key a handler computed in the step that ended in c
SanitizedBy(c) ==
    IF c.calls[1].ok THEN c.calls[1].out ELSE <<>>

\* task i has taken a step that ended in c and goes on at pc, or is done
Advance(i, c, pc, fields) ==
    /\ tasks' = [tasks EXCEPT ![i] =
                    [fields EXCEPT !.pc   = IF c.thrown THEN "done" ELSE pc,
                                   !.resp = IF c.thrown \/ pc = "done"
                                            THEN c.last ELSE @]]
    /\ store' = c.store
    /\ cache' = c.cache
    /\ now' = c.now
    /\ UNCHANGED <<req, resp, calls, prev, uploaded, served, proc>>

\* a request arrives and its handler is called
Arrive ==
    /\ Len(tasks) < MaxTasks
    /\ \E op \in {"getDownloadUrl", "deleteFile"}, key \in ConcurrentKeys :
           tasks' = Append(tasks, NewTask(op, key))
    /\ UNCHANGED <<store, cache, now, req, resp, calls, prev, uploaded, served, proc>>

Lookup ==
    \E i \in DOMAIN tasks :
        /\ tasks[i].op = "getDownloadUrl"
        /\ tasks[i].pc = "start"
        /\ LET c == getDownloadUrl_lookup(tasks[i], Start(store, cache))
           IN  Advance(i, c, IF c.last.val = NoUrl THEN "sign" ELSE "done",
                       [tasks[i] EXCEPT !.sanitizedKey = SanitizedBy(c)])

Sign ==
    \E i \in DOMAIN tasks, f \in TransferOutcomes :
        /\ tasks[i].pc = "sign"
        /\ LET c == getDownloadUrl_sign(tasks[i], Start(store, cache), f)
           IN  Advance(i, c, "set",
                       [tasks[i] EXCEPT !.url = IF c.thrown THEN NoUrl ELSE c.last.val])

Store ==
    \E i \in DOMAIN tasks :
        /\ tasks[i].pc = "set"
        /\ Advance(i, getDownloadUrl_store(tasks[i], Start(store, cache)),
                   "done", tasks[i])

\* the backend delete takes a millisecond; the steps on the cache take none
DeleteObject ==
    \E i \in DOMAIN tasks, f \in TransferOutcomes :
        /\ tasks[i].op = "deleteFile"
        /\ tasks[i].pc = "start"
        /\ LET c == Elapse(deleteFile_remove(tasks[i], Start(store, cache), f), 1)
           IN  Advance(i, c, "del",
                       [tasks[i] EXCEPT !.sanitizedKey = SanitizedBy(c),
                                        !.removedAt = c.now])

Invalidate ==
    \E i \in DOMAIN tasks :
        /\ tasks[i].pc = "del"
        /\ Advance(i, deleteFile_invalidate(tasks[i], Start(store, cache)),
                   "done", tasks[i])

ConcurrentNext ==
    \/ Arrive
    \/ Lookup
    \/ Sign
    \/ Store
    \/ DeleteObject
    \/ Invalidate

Concurrent == ConcurrentInit /\ [][ConcurrentNext]_vars

-----------------------------------------------------------------------------
(* Vocabulary of the properties *)

Done == resp # NoResp

StorageOps == {"s3.uploadFile", "s3.getFileStream", "s3.deleteFile",
               "s3.getUploadUrl", "s3.getDownloadUrl"}
CacheOps == {"cache.get", "cache.set", "cache.del"}

\* the indices of the calls of the request that are among ops
Issued(ops) == {i \in DOMAIN calls : calls[i].op \in ops}

\* the sanitizer invocations of the request
Sanitized == Issued({"sanitizeFileKey"})

HasIllegalChar(k) == \E i \in 1..Len(k) : k[i] \notin KeyChars
HasDotDot(k) == \E i \in 1..(Len(k) - 1) : k[i] = "." /\ k[i + 1] = "."
HasDotDotSegment(k) ==
    \E i \in 1..(Len(k) - 1) :
        /\ k[i] = "." /\ k[i + 1] = "."
        /\ (i = 1 \/ k[i - 1] = "/")
        /\ (i + 1 = Len(k) \/ k[i + 2] = "/")
HasLeadingSlash(k) == Len(k) > 0 /\ k[1] = "/"
HasDoubleSlash(k) == \E i \in 1..(Len(k) - 1) : k[i] = "/" /\ k[i + 1] = "/"

\* the ObjectKey invariant of the data model
IsObjectKey(k) ==
    /\ Len(k) > 0
    /\ ~HasIllegalChar(k)
    /\ ~HasDotDot(k)
    /\ ~HasLeadingSlash(k)
    /\ ~HasDoubleSlash(k)

\* the request failed with the invalid-key error and touched neither the
\* bucket nor the cache
RejectedAsInvalidKey ==
    /\ resp = Throw("InvalidKey")
    /\ Issued(StorageOps \cup CacheOps) = {}
    /\ store = SeedStore
    /\ cache = SeedCache

-----------------------------------------------------------------------------
(* C1 *)

-----------------------------------------------------------------------------
(* C2 *)

\* C2: sanitizing is idempotent: whenever the sanitizer has accepted a raw key
\* or folder and returned k, sanitizing k again succeeds and returns k.
C2_Idempotent ==
    \A i \in Sanitized :
        calls[i].ok => sanitizeFileKey(calls[i].out) = Ok(calls[i].out)

\* the sanitizer has accepted a key that it had to change
C2_Witness ==
    /\ Done
    /\ req.op = "getDownloadUrl"
    /\ req.key = <<".", ".", "/", "a">>
    /\ \E i \in Sanitized : calls[i].ok /\ calls[i].out = <<"a">>

-----------------------------------------------------------------------------
(* C3 *)

\* C3: every value the sanitizer returns is an ObjectKey: not empty, only
\* characters of [A-Za-z0-9_./-], no "..", no leading "/", no "//".
C3_SanitizedIsObjectKey ==
    \A i \in Sanitized : calls[i].ok => IsObjectKey(calls[i].out)

\* the sanitizer has returned a key for a raw key that began with "/" and
\* held ".."
C3_Witness ==
    /\ Done
    /\ req.op = "deleteFile"
    /\ req.key = <<"/", ".", ".", "a">>
    /\ \E i \in Sanitized : calls[i].ok /\ calls[i].out = <<"a">>

-----------------------------------------------------------------------------
(* C4 *)

\* the ObjectKey invariant in the words of the data model, with ".." as a
\* path segment
ObjectKeyInvariant(k) ==
    /\ Len(k) > 0
    /\ ~HasIllegalChar(k)
    /\ ~HasDotDotSegment(k)
    /\ ~HasLeadingSlash(k)
    /\ ~HasDoubleSlash(k)

\* the calls that hand a key to the storage backend
BackendCalls == Issued(StorageOps)

\* C4 as stated: every key that uploadFile or getPresignedUrl builds and hands
\* to the storage backend holds only [A-Za-z0-9_./-], has no ".." segment, no
\* leading "/" and no "//", whatever the filename and the folder or type.
C4_BuiltKeysAreObjectKeys ==
    req.op \in UploadOps \cup {"getPresignedUrl"}
        => \A i \in BackendCalls : ObjectKeyInvariant(calls[i].arg)

-----------------------------------------------------------------------------
(* C5 *)

\* the path component the caller supplies; <<>> when the caller supplies none
UserPart ==
    IF req.op \in KeyOps THEN req.key
    ELSE IF req.op = "getPresignedUrl" THEN req.type
    ELSE req.customFolder

\* k is the sanitized value, its cache key, or a key under it as folder
BuiltFrom(k, out) ==
    \/ k = out
    \/ k = CacheKey(out)
    \/ startsWith(k, out \o <<"/">>)

\* C5 as stated: in getFile, deleteFile, getDownloadUrl, uploadFile (folder
\* hint) and getPresignedUrl (type), every key passed to the backend or the
\* cache is built from the value the sanitizer returned for the caller's
\* input, and the sanitizer ran before the call.
C5_SanitizerAlwaysInvoked ==
    (req.op \in KeyOps \cup UploadOps \cup {"getPresignedUrl"} /\ UserPart # <<>>)
        => \A i \in Issued(StorageOps \cup CacheOps) :
               \E j \in Sanitized :
                   /\ j < i
                   /\ calls[j].ok
                   /\ calls[j].arg = UserPart
                   /\ BuiltFrom(calls[i].arg, calls[j].out)

-----------------------------------------------------------------------------
(* C6 *)

\* C6 as stated: the sanitizer fails with the invalid-key error when the
\* normalized key is empty or longer than 500 characters, and no key longer
\* than 500 characters reaches a storage or cache operation.
C6_LongKeyRejected ==
    /\ \A i \in Sanitized :
           (Normalize(calls[i].arg) = <<>>
                \/ Len(Normalize(calls[i].arg)) > MAX_KEY_LENGTH)
               => ~calls[i].ok /\ resp = Throw("InvalidKey")
    /\ req.op \in KeyOps \cup UploadOps
           => \A i \in Issued(StorageOps) : Len(calls[i].arg) <= MAX_KEY_LENGTH

-----------------------------------------------------------------------------
(* C7 *)

\* the last n characters of s
Suffix(s, n) == SubSeq(s, Len(s) - n + 1, Len(s))

\* filename is a base name followed by an extension of the deny-list, in any
\* letter case
HasBlockedExtension(filename) ==
    \E b \in BLOCKED_EXTENSIONS :
        /\ Len(filename) > Len(b)
        /\ filename[Len(filename) - Len(b)] # "/"
        /\ toLowerCase(Suffix(filename, Len(b))) = b

\* C7: an upload whose filename extension is on the deny-list, in any letter
\* case, is rejected with the blocked-extension error although its declared
\* MIME type is on the allow-list, whatever its content; nothing is written
\* to the store and no backend call is made.
C7_BlockedExtensionRejected ==
    (Done /\ req.op \in UploadOps
        /\ HasBlockedExtension(req.file.filename)
        /\ req.file.mimetype \in ALLOWED_MIMETYPES)
    => /\ resp = Throw("BlockedExtension")
       /\ BackendCalls = {}
       /\ store = SeedStore

\* a file named a.ExE, declared as PDF and carrying the PDF signature, has
\* been rejected
C7_Witness ==
    /\ Done
    /\ req.op = "uploadFile"
    /\ req.file.filename = <<"a", ".", "E", "x", "E">>
    /\ req.file.mimetype = <<"application", "pdf">>
    /\ req.file.content = SeedObject
    /\ resp = Throw("BlockedExtension")
    /\ store = SeedStore

-----------------------------------------------------------------------------
(* C8 *)

\* the leading bytes of buffer are, byte for byte, those of signature
HasPrefix(buffer, signature) ==
    /\ buffer.length >= Len(signature)
    /\ Len(buffer.head) >= Len(signature)
    /\ SubSeq(buffer.head, 1, Len(signature)) = signature

\* the calls of the signature gate
SignatureChecks == Issued({"verifyFileSignature"})

\* C8: for a declared MIME type with a registered signature, a preview whose
\* leading bytes differ from the signature, a shorter or an empty preview
\* included, is rejected with the signature-mismatch error whatever the
\* length of the payload; for a MIME type without a registered signature the
\* gate always passes.
C8_SignatureGate ==
    req.op \in UploadOps =>
        \A i \in SignatureChecks :
            IF req.file.mimetype \in SignedTypes
            THEN ~HasPrefix(calls[i].arg, FILE_SIGNATURES[req.file.mimetype])
                     => ~calls[i].ok /\ resp = Throw("SignatureMismatch")
            ELSE calls[i].ok

\* a payload declared as PNG of which only the first three bytes exist, and
\* those equal to the signature's, has been rejected
C8_Witness ==
    /\ Done
    /\ req.op = "uploadFile"
    /\ req.file.mimetype = <<"image", "png">>
    /\ req.file.content = [head |-> <<137, 80, 78>>, length |-> 3]
    /\ resp = Throw("SignatureMismatch")

-----------------------------------------------------------------------------
(* C9 *)

\* the validation steps of an upload, the read of the payload included
Gates == {"validateMimeType", "validateExtension", "validateFileSize",
          "verifyFileSignature", "sanitizeFileKey", "file.toBuffer"}

AnyUploadOps == UploadOps \cup {"legacyUploadFile"}

\* C9: in every execution of uploadFile, when a validation gate (MIME
\* allow-list, extension deny-list, size, signature, folder sanitization)
\* rejects the candidate, the request fails, nothing is written to the
\* object store and no signing call is issued.
C9_RejectionWritesNothing ==
    (Done /\ req.op \in AnyUploadOps /\ \E i \in Issued(Gates) : ~calls[i].ok)
    => /\ ~resp.ok
       /\ BackendCalls = {}
       /\ store = SeedStore

\* an upload that passed every other gate has been rejected at the last one,
\* the sanitizing of its folder hint
C9_Witness ==
    /\ Done
    /\ req.op = "uploadFile"
    /\ req.customFolder = <<"a", "$">>
    /\ Len(calls) = 6
    /\ calls[6].op = "sanitizeFileKey"
    /\ ~calls[6].ok
    /\ BackendCalls = {}

-----------------------------------------------------------------------------
(* C10 *)

\* the errors that report a payload over the size budget: the validator's
\* and the multipart plugin's
SizeErrors == {"SizeExceeded", "FileTooLarge"}

Oversized == req.op \in AnyUploadOps /\ req.file.content.length > MAX_FILE_SIZE

\* C10 as stated: uploading a payload longer than 50 MiB fails with the
\* size-exceeded error, and no object exists afterwards at the key the upload
\* would have used.
C10_AsStated ==
    (Done /\ Oversized)
    => /\ ~resp.ok
       /\ resp.err \in SizeErrors
       /\ store = SeedStore

\* C10 amended: uploading a payload longer than 50 MiB fails, no transfer is
\* started and no object exists afterwards at the key the upload would have
\* used; the error is the size-exceeded one unless the MIME, extension,
\* signature or folder gate, which run before the payload has been read in
\* full, rejected the upload with its own error.
C10_OversizeRejected ==
    (Done /\ Oversized)
    => /\ ~resp.ok
       /\ Issued({"s3.uploadFile"}) = {}
       /\ store = SeedStore
       /\ (\A i \in Issued(Gates \ {"validateFileSize", "file.toBuffer"}) : calls[i].ok)
              => resp.err \in SizeErrors

\* a PDF of 50 MiB and one byte, valid in every other respect, has been
\* rejected for its size
C10_Witness ==
    /\ Done
    /\ req.op = "uploadFile"
    /\ req.file.filename = <<"a", ".", "p", "d", "f">>
    /\ req.file.mimetype = <<"application", "pdf">>
    /\ req.file.content.length = MAX_FILE_SIZE + 1
    /\ HasPrefix(req.file.content, FILE_SIGNATURES[<<"application", "pdf">>])
    /\ resp.err \in SizeErrors
    /\ store = SeedStore

-----------------------------------------------------------------------------
(* C11 *)

\* the keys the request handed to S3Service.uploadFile
TransferKeys == {calls[i].arg : i \in Issued({"s3.uploadFile"})}

\* C11 as stated: when uploadFile returns success, an object exists at the
\* returned key; when it returns an error, from whichever step, the signing
\* after the transfer included, no object exists at the key it generated.
C11_UploadAllOrNothing ==
    (Done /\ req.op \in UploadOps)
    => IF resp.ok
       THEN resp.val.key \in DOMAIN store
       ELSE \A k \in TransferKeys : k \notin DOMAIN store

-----------------------------------------------------------------------------
(* C12 *)

\* C12 as stated: the bytes uploadFile writes to the object store are the
\* complete bytes of the source, and the preview handed to the signature
\* check is a prefix of the bytes written.
C12_SingleForwardRead ==
    (Done /\ req.op \in UploadOps /\ resp.ok)
    => LET written == store[resp.val.key]
       IN  /\ written = req.file.content
           /\ \A i \in SignatureChecks :
                  calls[i].arg = Slice(written, Min(written.length, MAX_PREVIEW))

-----------------------------------------------------------------------------
(* C13 *)

\* the bytes the preview window and the parts in flight may hold
MemoryBudget == MAX_PREVIEW + QUEUE_SIZE * PART_SIZE

\* the buffers the request has read the payload into
PayloadBuffers == {calls[i].out : i \in {j \in Issued({"file.toBuffer"}) : calls[j].ok}}

\* C13 as stated: the payload bytes an upload holds in memory never exceed
\* the preview window plus four parts of 5 MiB, whatever the size of the
\* payload; the full payload is never resident at once.
C13_BoundedMemory ==
    req.op \in AnyUploadOps => \A b \in PayloadBuffers : b.length <= MemoryBudget

-----------------------------------------------------------------------------
(* C17 *)

\* the namespace the claim gives for a declared MIME type
NamespaceOf(mimetype) ==
    IF mimetype[1] = "image" THEN <<"i", "m", "a", "g", "e", "s">>
    ELSE IF mimetype[1] = "audio"
         THEN <<"r", "e", "c", "o", "r", "d", "i", "n", "g", "s">>
         ELSE <<"d", "o", "c", "u", "m", "e", "n", "t", "s">>

\* C17: a successful uploadFile without folder hint returns a key under
\* images/ when the declared MIME type starts with image/, under recordings/
\* when it starts with audio/ and under documents/ otherwise; the folder it
\* returns is that namespace and the size it returns is the number of bytes
\* stored under the key.
C17_DefaultNamespace ==
    (Done /\ req.op \in UploadOps /\ req.customFolder = <<>> /\ resp.ok)
    => /\ startsWith(resp.val.key, NamespaceOf(req.file.mimetype) \o <<"/">>)
       /\ resp.val.folder = NamespaceOf(req.file.mimetype)
       /\ resp.val.key \in DOMAIN store
       /\ resp.val.size = store[resp.val.key].length

\* a PNG of 2 KB without folder hint has been stored under images/
C17_Witness ==
    /\ Done
    /\ req.op = "uploadFile"
    /\ req.customFolder = <<>>
    /\ req.file.mimetype = <<"image", "png">>
    /\ resp.ok
    /\ resp.val.folder = <<"i", "m", "a", "g", "e", "s">>
    /\ resp.val.size = 2048
    /\ resp.val.key \in DOMAIN store

-----------------------------------------------------------------------------
(* Vocabulary of the properties of a run of requests *)

\* req and the request before it are of these operations, on the same key
\* once sanitized
Successive(first, second) ==
    /\ prev.req.op = first
    /\ req.op = second
    /\ Normalize(prev.req.key) = Normalize(req.key)

\* the signing calls among the calls cs
Signings(cs) == {i \in DOMAIN cs : cs[i].op = "s3.getDownloadUrl"}

\* the moment url stops being valid, in milliseconds
ExpiresAt(url) == url.at + url.expiresIn * 1000

-----------------------------------------------------------------------------
(* C14 *)

\* C14: when getDownloadUrl(k) has signed and stored a URL, and the next
\* request is getDownloadUrl(k) again, arriving before the cache TTL has run
\* out, the second call returns cached = true with the URL of the first and
\* makes no signing call: one signing call in all.
C14_SecondCallCached ==
    (/\ Successive("getDownloadUrl", "getDownloadUrl")
     /\ prev.resp.ok
     /\ ~prev.resp.val.cached
     /\ req.at < prev.at + CACHE_TTL_MS)
    => /\ resp.ok
       /\ resp.val.cached
       /\ resp.val.url = prev.resp.val.url
       /\ Signings(calls) = {}
       /\ Cardinality(Signings(prev.calls)) = 1

\* a second call in the last millisecond of the TTL has been served from the
\* cache
C14_Witness ==
    /\ Successive("getDownloadUrl", "getDownloadUrl")
    /\ prev.resp.ok
    /\ ~prev.resp.val.cached
    /\ req.at = prev.at + CACHE_TTL_MS - 1
    /\ resp.ok
    /\ resp.val.cached
    /\ resp.val.url = prev.resp.val.url

-----------------------------------------------------------------------------
(* C15 *)

\* C15: when deleteFile(k) has succeeded and the next request is
\* getDownloadUrl(k), the answer, if it is a URL, has cached = false and the
\* URL was signed by this call, not before the delete.
C15_DeleteInvalidates ==
    (Successive("deleteFile", "getDownloadUrl") /\ prev.resp.ok /\ resp.ok)
    => /\ ~resp.val.cached
       /\ resp.val.url.at = req.at
       /\ Cardinality(Signings(calls)) = 1

\* the third request of a run, one millisecond after a successful delete of
\* its key, has been answered with a fresh URL
C15_Witness ==
    /\ served = 3
    /\ Successive("deleteFile", "getDownloadUrl")
    /\ prev.resp.ok
    /\ req.at = prev.at + 1
    /\ resp.ok
    /\ ~resp.val.cached

-----------------------------------------------------------------------------
(* C16 *)

\* C16 as stated: after an object has been uploaded and then successfully
\* deleted, getDownloadUrl for its key returns the backend's not-found error,
\* not a URL.
C16_DeletedKeyNotFound ==
    (/\ Successive("deleteFile", "getDownloadUrl")
     /\ prev.resp.ok
     /\ Normalize(req.key) \in uploaded
     /\ Normalize(req.key) \notin DOMAIN store)
    => /\ ~resp.ok
       /\ resp.err = "S3Error"
       /\ resp.val.name = "NoSuchKey"

-----------------------------------------------------------------------------
(* C18 *)

\* C18: a URL that getDownloadUrl returns with cached = true has not expired,
\* and every entry of the cache stops being served strictly before its URL
\* expires: the TTL of 3000 s from the moment of cache.set ends before the
\* 3600 s from the moment of signing.
C18_CachedUrlNotExpired ==
    /\ (req.op = "getDownloadUrl" /\ resp.ok /\ resp.val.cached)
           => now < ExpiresAt(resp.val.url)
    /\ \A ck \in DOMAIN cache :
           cache[ck].at + cache[ck].ttl < ExpiresAt(cache[ck].url)

\* a URL stored 30 s after it was signed has been served from the cache in
\* the last millisecond of its entry
C18_Witness ==
    /\ req.op = "getDownloadUrl"
    /\ resp.ok
    /\ resp.val.cached
    /\ now = resp.val.url.at + REQUEST_TIMEOUT_MS + CACHE_TTL_MS - 1

-----------------------------------------------------------------------------
(* C19 *)

\* an upload has just stored new content under a key that held other content
\* and whose download URL was cached and still served
Overwrote(k) ==
    /\ req'.op = "uploadFile"
    /\ served' = served + 1
    /\ resp'.ok
    /\ k = resp'.val.key
    /\ k \in DOMAIN store
    /\ store'[k] # store[k]
    /\ CacheKey(k) \in DOMAIN cache
    /\ req'.at < cache[CacheKey(k)].at + cache[CacheKey(k)].ttl

\* C19 as stated: when an upload changes the content stored at a key whose
\* signed URL is cached, the entry is invalidated: after the upload the cache
\* holds no entry for the key that was created before it.
C19_UploadInvalidates ==
    [][\A k \in DOMAIN store :
           Overwrote(k) => (CacheKey(k) \in DOMAIN cache'
                                => cache'[CacheKey(k)].at >= req'.at)]_vars

-----------------------------------------------------------------------------
(* C20 *)

\* the closed taxonomy of error kinds
Taxonomy == {"InvalidKey", "UnsupportedType", "BlockedExtension",
             "SignatureMismatch", "SizeExceeded", "NotFound",
             "BackendUnavailable", "ConfigurationError"}

\* the backend calls of the request that failed
FailedBackendCalls == {i \in BackendCalls : ~calls[i].ok}

\* C20 as stated: the name of every error that S3Service hands to its caller
\* is a kind of the closed taxonomy, and a backend failure whose identifier
\* is not in the translation table gets the generic backend-unavailable kind.
C20_ClosedTaxonomy ==
    req.op \in KeyOps \cup UploadOps \cup {"getPresignedUrl"}
        => \A i \in FailedBackendCalls :
               /\ calls[i].out.name \in Taxonomy
               /\ calls[i].out.originalError.name \notin DOMAIN errorMap
                      /\ calls[i].out.originalError.code \notin DOMAIN errorMap
                      => calls[i].out.name = "BackendUnavailable"

-----------------------------------------------------------------------------
(* C21 *)

\* the operation word each S3Service method hands to handleS3Error
OperationOf(op) ==
    CASE op = "s3.uploadFile"     -> "upload"
      [] op = "s3.getFileStream"  -> "read"
      [] op = "s3.deleteFile"     -> "delete"
      [] op = "s3.getUploadUrl"   -> "presign"
      [] op = "s3.getDownloadUrl" -> "presign"

\* the fixed strings of the translation table
TableMessages == {<<errorMap[n]>> : n \in DOMAIN errorMap}

GenericMessage(operation) == <<"S3 ", operation, " operation failed">>

\* the message texts the backend itself produced
BackendMessages == {f.message : f \in S3Failures \cup {NoSuchKeyFailure}}

\* the requests served by the revisions that go through handleS3Error
TranslatedOps == KeyOps \cup UploadOps \cup {"getPresignedUrl"}

\* C21: the message of every error that handleS3Error returns is a string of
\* the table or the generic `S3 <operation> operation failed`, no part of it
\* is the backend's own message text, and the backend's error is attached as
\* originalError.
C21_MessageIsTableOrGeneric ==
    req.op \in TranslatedOps
        => \A i \in FailedBackendCalls :
               LET e == calls[i].out
               IN  /\ e.message \in TableMessages
                                      \cup {GenericMessage(OperationOf(calls[i].op))}
                   /\ \A j \in DOMAIN e.message : e.message[j] \notin BackendMessages
                   /\ e.originalError \in S3Failures \cup {NoSuchKeyFailure}
                   /\ e.originalError.message \in BackendMessages

\* a backend failure outside the table was translated to the generic message,
\* its own message text kept only on the attached original
C21_Witness ==
    /\ Done
    /\ req.op \in TranslatedOps
    /\ \E i \in FailedBackendCalls :
           /\ calls[i].out.originalError.message = "m-kms"
           /\ calls[i].out.message = GenericMessage(OperationOf(calls[i].op))

-----------------------------------------------------------------------------
(* C22 *)

\* the construction or the initialisation of S3Service has failed
StartFailed == proc.error # "none"

\* C22: the server listens only after a bucket verification that succeeded,
\* with every mandatory setting present; once a setting was found missing or
\* the verification failed the server never listens, and the process ends
\* with a non-zero exit code.
C22_ListenOnlyAfterVerification ==
    /\ [](proc.phase = "listening" => proc.verified /\ missing(proc.env) = {})
    /\ [](StartFailed => proc.phase \in {"rejected", "exited"})
    /\ [](missing(proc.env) # {} => proc.phase \in {"start", "rejected", "exited"})
    /\ [](proc.exited /\ StartFailed => proc.code # 0)
    /\ (StartFailed ~> (proc.exited /\ proc.code # 0))

\* the bucket verification failed with every setting present, and the
\* process has exited with code 1 without having listened
C22_Witness ==
    /\ proc.error = "S3 bucket verification failed"
    /\ missing(proc.env) = {}
    /\ proc.exited
    /\ proc.code = 1
    /\ served = 0

-----------------------------------------------------------------------------
(* C23 *)

\* the probe of the health request that was served
Probes == Issued({"s3.verifyBucketAccess"})

\* C23: healthCheck answers true exactly when its bucket-access probe went
\* through and false when the probe failed, it never throws, and the object
\* store and the URL cache are as they were before it.
C23_HealthCheckIsPure ==
    req.op = "health"
        => /\ resp.ok
           /\ Cardinality(Probes) = 1
           /\ \A i \in Probes : resp.val.s3Connected = calls[i].ok
           /\ store = SeedStore
           /\ cache = SeedCache

\* a health request whose probe failed was answered with false
C23_Witness ==
    /\ req.op = "health"
    /\ \E i \in Probes : ~calls[i].ok
    /\ resp.ok
    /\ resp.val.s3Connected = FALSE

-----------------------------------------------------------------------------
(* C24 *)

\* the handlers of op that have returned a result
Returned(op) ==
    {i \in DOMAIN tasks : tasks[i].op = op /\ tasks[i].pc = "done" /\ tasks[i].resp.ok}

\* C24 as stated: once a deleteFile of a key has returned success, the cache
\* holds no entry for the key whose URL was signed before the object was
\* removed, and no getDownloadUrl of the key that started after the removal
\* returns such a URL with cached = true.
C24_NoStaleUrlAfterDelete ==
    \A d \in Returned("deleteFile") :
        LET s == tasks[d].sanitizedKey
            removedAt == tasks[d].removedAt
        IN  /\ CacheKey(s) \in DOMAIN cache
                   => cache[CacheKey(s)].url.at >= removedAt
            /\ \A g \in Returned("getDownloadUrl") :
                   /\ tasks[g].sanitizedKey = s
                   /\ tasks[g].startedAt >= removedAt
                   /\ tasks[g].resp.val.cached
                   => tasks[g].resp.val.url.at >= removedAt

-----------------------------------------------------------------------------
(* C25 *)

\* the operations that run the gates of the validator on a candidate
ValidatingOps == UploadOps \cup {"validateFile"}

\* the bytes the signature gate of the ongoing request is given
PreviewOf(file) ==
    IF req.op = "validateFile"
    THEN file.content
    ELSE Slice(file.content, Min(file.content.length, MAX_PREVIEW))

\* the error of the first gate that fails when the gates are applied in the
\* order MIME allow-list, extension deny-list, signature, size
FirstFailingGate(file) ==
    CASE ~validateMimeType(file.mimetype).ok
             -> validateMimeType(file.mimetype).err
      [] ~validateExtension(file.filename).ok
             -> validateExtension(file.filename).err
      [] ~verifyFileSignature(PreviewOf(file), file.mimetype).ok
             -> verifyFileSignature(PreviewOf(file), file.mimetype).err
      [] ~validateFileSize(file.content.length, MAX_FILE_SIZE).ok
             -> validateFileSize(file.content.length, MAX_FILE_SIZE).err
      [] OTHER -> "none"

\* the error the request reported
ReportedError ==
    IF req.op = "validateFile" THEN resp.val.error ELSE resp.err

\* C25 as stated: the gates are applied in the order MIME allow-list,
\* extension deny-list, signature match, size budget, and the error reported
\* is that of the first gate that fails in this order (an error of the size
\* gate may be reported as the payload-too-large error of the buffering).
C25_GateOrder ==
    Done /\ req.op \in ValidatingOps /\ FirstFailingGate(req.file) # "none"
        => \/ ReportedError = FirstFailingGate(req.file)
           \/ ReportedError \in SizeErrors /\ FirstFailingGate(req.file) \in SizeErrors

-----------------------------------------------------------------------------
(* C26 *)

\* the identifiers of connection failures: refused, timed out, unresolvable
ConnectionCodes == {"ECONNREFUSED", "ETIMEDOUT", "ENOTFOUND"}

\* the backend calls that failed with a connection failure, identified by
\* the name or by the code of the error
ConnectionFailures ==
    {i \in FailedBackendCalls :
        \/ calls[i].out.originalError.name \in ConnectionCodes
        \/ calls[i].out.originalError.code \in ConnectionCodes}

\* the identifier of a connection failure
ConnectionCodeOf(error) ==
    IF error.name \in ConnectionCodes THEN error.name ELSE error.code

\* C26 as stated: every backend failure identified as ECONNREFUSED, ETIMEDOUT
\* or ENOTFOUND is translated by handleS3Error to the table entry of that
\* identifier, whatever the name field of the error holds.
C26_ConnectionFailuresTranslated ==
    req.op \in TranslatedOps
        => \A i \in ConnectionFailures :
               calls[i].out.message
                   = <<errorMap[ConnectionCodeOf(calls[i].out.originalError)]>>

-----------------------------------------------------------------------------
(* C27 *)

\* the request just served is a deleteFile whose backend delete failed
DeleteFailed(r, answer) ==
    r.op = "deleteFile" /\ ~answer.ok /\ answer.err = "S3Error"

\* the cache holds an entry for the key of r that has not expired at time t
CachedFor(r, t) ==
    LET cacheKey == CacheKey(Normalize(r.key))
    IN  cacheKey \in DOMAIN cache /\ t < cache[cacheKey].at + cache[cacheKey].ttl

\* C27: when the backend delete of deleteFile(k) fails, deleteFile reports
\* the error and the cache is as it was before the call; an entry for k that
\* is in the cache then is served by the next getDownloadUrl(k), arriving
\* within the entry's time to live, with cached = true.
C27_FailedDeleteKeepsCache ==
    [][/\ (served' = served + 1 /\ DeleteFailed(req', resp')) => cache' = cache
       /\ (/\ DeleteFailed(req, resp)
           /\ served' = served + 1
           /\ req'.op = "getDownloadUrl"
           /\ Normalize(req'.key) = Normalize(req.key)
           /\ CachedFor(req, req'.at))
          => /\ resp'.ok
             /\ resp'.val.cached
             /\ resp'.val.url = cache[CacheKey(Normalize(req.key))].url]_vars

\* a URL was cached, the delete of its key failed at the backend, and the
\* getDownloadUrl after it was served from the cache
C27_Witness ==
    /\ Successive("deleteFile", "getDownloadUrl")
    /\ DeleteFailed(prev.req, prev.resp)
    /\ resp.ok
    /\ resp.val.cached
    /\ served = 3

-----------------------------------------------------------------------------
(* C28 *)

\* handler i has thrown in the step just taken
Failing(i, op) ==
    /\ i \in DOMAIN tasks
    /\ tasks[i].op = op
    /\ tasks[i].pc # "done"
    /\ tasks'[i].pc = "done"
    /\ ~tasks'[i].resp.ok

\* the getDownloadUrl handlers that returned a URL they signed and stored
Storers == {h \in Returned("getDownloadUrl") : ~tasks[h].resp.val.cached}

\* every URL returned with cached = true was stored by a getDownloadUrl of
\* the same sanitized key that returned successfully
CachedUrlsWereStored ==
    \A g \in Returned("getDownloadUrl") :
        tasks[g].resp.val.cached
            => \E h \in Storers :
                   /\ tasks[h].sanitizedKey = tasks[g].sanitizedKey
                   /\ tasks[h].resp.val.url = tasks[g].resp.val.url

\* C28: a getDownloadUrl that fails, at the sanitizer or at the signing call,
\* creates and modifies no cache entry, and a getDownloadUrl returns
\* cached = true only with a URL that a successful call stored before.
C28_FailedGetLeavesCache ==
    [][/\ \A i \in DOMAIN tasks : Failing(i, "getDownloadUrl") => cache' = cache
       /\ CachedUrlsWereStored']_vars

\* a getDownloadUrl of a key failed at the signing call, and another call
\* for the same key was not served from the cache: it signed and stored
C28_Witness ==
    \E g \in DOMAIN tasks, h \in Storers :
        /\ tasks[g].op = "getDownloadUrl"
        /\ tasks[g].pc = "done"
        /\ tasks[g].resp.err = "S3Error"
        /\ tasks[g].key = tasks[h].key
        /\ CacheKey(tasks[h].sanitizedKey) \in DOMAIN cache

-----------------------------------------------------------------------------
(* C29 *)

\* url was produced by the signing call of getDownloadUrl for the key s
SignedFor(url, s) ==
    /\ url.command = "GetObject"
    /\ url.key = s
    /\ url.expiresIn = DEFAULT_EXPIRES_IN

\* C29: in every reachable state of every interleaving of getDownloadUrl and
\* deleteFile handlers, the entry under `presigned:<s>` is a URL that was
\* signed for the sanitized key s, and the URL a getDownloadUrl returns was
\* signed for the sanitized form of the key it was called with.
C29_CacheEntryMatchesKey ==
    /\ \A ck \in DOMAIN cache :
           /\ ck = CacheKey(cache[ck].url.key)
           /\ SignedFor(cache[ck].url, cache[ck].url.key)
           /\ sanitizeFileKey(cache[ck].url.key) = Ok(cache[ck].url.key)
    /\ \A g \in Returned("getDownloadUrl") :
           SignedFor(tasks[g].resp.val.url, sanitizeFileKey(tasks[g].key).val)

\* two getDownloadUrl handlers on different sanitized keys have run
\* interleaved, each has returned the URL of its own key, and both URLs are
\* cached
C29_Witness ==
    /\ Cardinality(DOMAIN cache) = 2
    /\ \E g \in Storers, h \in Storers :
           /\ tasks[g].sanitizedKey # tasks[h].sanitizedKey
           /\ tasks[g].resp.val.url.key = tasks[g].sanitizedKey
           /\ tasks[h].resp.val.url.key = tasks[h].sanitizedKey

-----------------------------------------------------------------------------
(* C30 *)

\* the calls of the size gate the request made
SizeChecks == Issued({"validateFileSize"})

\* the request was refused: an error, or valid = false from validateFile
Refused ==
    IF req.op = "validateFile" THEN ~resp.val.valid ELSE ~resp.ok

\* C30: the size gate accepts exactly the sizes up to its maximum, which is
\* 52428800 by default: a payload of 52428800 bytes passes it and, when
\* uploadFile succeeds, is stored whole, and a payload of 52428801 bytes is
\* refused and nothing is stored.
C30_SizeBoundary ==
    Done /\ req.op \in {"uploadFile", "validateFile"}
        => /\ MAX_FILE_SIZE = 52428800
           /\ \A i \in SizeChecks : calls[i].ok <=> calls[i].arg <= 52428800
           /\ req.file.content.length = 52428800
                  => /\ ReportedError \notin SizeErrors
                     /\ req.op = "uploadFile" /\ resp.ok
                            => /\ resp.val.key \in DOMAIN store
                               /\ store[resp.val.key].length = 52428800
                               /\ resp.val.size = 52428800
           /\ req.file.content.length = 52428801
                  => Refused /\ store = SeedStore

\* a PDF of exactly 52428800 bytes has passed the size gate and is stored
C30_Witness ==
    /\ Done
    /\ req.op = "uploadFile"
    /\ req.file.content.length = 52428800
    /\ \E i \in SizeChecks : calls[i].ok /\ calls[i].arg = 52428800
    /\ resp.ok
    /\ resp.val.key \in DOMAIN store
    /\ store[resp.val.key].length = 52428800

=============================================================================
